---- MODULE Spec2Model ----
(***************************************************************************)
(* A model of the Batch container (src/src/batch/batch.py).                *)
(*                                                                         *)
(* Python objects are modelled by tagged records (field t is the type).    *)
(* Batch objects live in a heap: every Batch has an identity and a         *)
(* reference to its __dict__, so that two Batches sharing one __dict__ and *)
(* two parents sharing one nested Batch are distinguishable from copies.   *)
(* A __dict__ is an insertion-ordered sequence of entries [k, v].          *)
(*                                                                         *)
(* A string key is the sequence of its "."-separated segments:             *)
(* "a.x" is <<"a", "x">>, so that "." in key is Len(key) > 1 and           *)
(* key.split(".", maxsplit=1) is <<Head(key)>>, Tail(key).                 *)
(*                                                                         *)
(* Every operation returns [h, r, err]: the heap after it, its result and  *)
(* "ok" or the name of the exception it raised.  The heap of a raised      *)
(* exception is the heap at the raise: Python rolls nothing back.          *)
(* Leaf objects (lists, arrays, namespaces) are values: their identity     *)
(* is not modelled.                                                        *)
(*                                                                         *)
(* A call runs in one step, except to_list, whose loop runs one statement  *)
(* per step: frame holds the locals and the line of the running to_list,   *)
(* or None.                                                                *)
(***************************************************************************)
EXTENDS Integers, Sequences, FiniteSets, TLC

VARIABLES heap, log, frame

vars == <<heap, log, frame>>

(* ------------------------------ values -------------------------------- *)

None == [t |-> "none"]
PyInt(n) == [t |-> "int", n |-> n]
Bool(b) == [t |-> "bool", b |-> b]
Str(k) == [t |-> "str", k |-> k]
List(e) == [t |-> "list", e |-> e]
Tuple(e) == [t |-> "tuple", e |-> e]
Arr(e) == [t |-> "arr", e |-> e]
Slice(lo, hi) == [t |-> "slice", lo |-> lo, hi |-> hi]
Dict(m) == [t |-> "dict", m |-> m]
Ref(id) == [t |-> "ref", id |-> id]
Namespace(x) == [t |-> "ns", x |-> x]
Fn(f) == [t |-> "fn", f |-> f]
Method(self, name) == [t |-> "meth", self |-> self, name |-> name]

Entry(k, v) == [k |-> k, v |-> v]

Ok(h, r) == [h |-> h, r |-> r, err |-> "ok"]
Raise(h, e) == [h |-> h, r |-> None, err |-> e]

(* isinstance(v, int): bool is a subclass of int *)
IsInt(v) == v.t \in {"int", "bool"}
IntOf(v) == IF v.t = "bool" THEN (IF v.b THEN 1 ELSE 0) ELSE v.n

(* ------------------------- the builtin dict --------------------------- *)

dict_index(d, k) ==
    IF \E i \in 1..Len(d) : d[i].k = k
    THEN CHOOSE i \in 1..Len(d) : d[i].k = k
    ELSE 0

dict_contains(d, k) == dict_index(d, k) # 0

dict_getitem(d, k) == d[dict_index(d, k)].v

dict_setitem(d, k, v) ==
    IF dict_contains(d, k)
    THEN [d EXCEPT ![dict_index(d, k)] = Entry(k, v)]
    ELSE Append(d, Entry(k, v))

dict_delitem(d, k) ==
    SelectSeq(d, LAMBDA e : e.k # k)

RECURSIVE dict_update(_, _)
dict_update(d, other) ==
    IF other = <<>> THEN d
    ELSE dict_update(dict_setitem(d, Head(other).k, Head(other).v), Tail(other))

dict_keys(d) == [i \in 1..Len(d) |-> d[i].k]

(* ------------------------------ the heap ------------------------------ *)

EmptyHeap == [objs |-> <<>>, dicts |-> <<>>]

(* self.__dict__ *)
DictOf(h, id) == h.dicts[h.objs[id]]

SetDict(h, id, d) == [h EXCEPT !.dicts[h.objs[id]] = d]

(* object.__new__(Batch): a new object with its own empty __dict__ *)
New(h) ==
    [objs |-> Append(h.objs, Len(h.dicts) + 1), dicts |-> Append(h.dicts, <<>>)]

(* ------------------------- keys and attributes ------------------------ *)

(* name mangling of self.__default and self.__in_place inside class Batch *)
DEFAULT == <<"_Batch__default">>
IN_PLACE == <<"_Batch__in_place">>

(* INTERNAL_MEMBER_PREFIX = "_Batch", as the segments that start with it. *)
INTERNAL_MEMBER_PREFIX == {"_Batch__default", "_Batch__in_place", "_Batch_x"}

(* key.startswith(self.INTERNAL_MEMBER_PREFIX) *)
startswith(key) == key[1] \in INTERNAL_MEMBER_PREFIX

(* keys(depth=0) *)
keys(h, id) ==
    SelectSeq(dict_keys(DictOf(h, id)), LAMBDA k : ~startswith(k))

__len__(h, id) == Len(keys(h, id))

(* ------------------- the members: len(v) and v[index] ----------------- *)

Max(a, b) == IF a > b THEN a ELSE b
Min(a, b) == IF a < b THEN a ELSE b

(* slice.indices(n) with step 1: the half-open range of 0-based positions *)
SliceLo(s, n) ==
    IF s.lo.t = "none" THEN 0
    ELSE IF IntOf(s.lo) < 0 THEN Max(n + IntOf(s.lo), 0) ELSE Min(IntOf(s.lo), n)

SliceHi(s, n) ==
    IF s.hi.t = "none" THEN n
    ELSE IF IntOf(s.hi) < 0 THEN Max(n + IntOf(s.hi), 0) ELSE Min(IntOf(s.hi), n)

SliceOf(e, s) ==
    LET lo == SliceLo(s, Len(e))
        hi == SliceHi(s, Len(e))
    IN  IF hi <= lo THEN <<>> ELSE SubSeq(e, lo + 1, hi)

(* a 0-based, possibly negative index into a sequence of n elements *)
InRange(i, n) == -n <= i /\ i < n
At(e, i) == IF i < 0 THEN e[Len(e) + i + 1] ELSE e[i + 1]

(* numpy.ndarray.__getitem__ with a tuple of integers and slices *)
RECURSIVE NpOk(_, _)
NpOk(a, idx) ==
    IF idx = <<>> THEN TRUE
    ELSE IF a.t # "arr" THEN FALSE
    ELSE IF IsInt(Head(idx))
         THEN InRange(IntOf(Head(idx)), Len(a.e))
              /\ NpOk(At(a.e, IntOf(Head(idx))), Tail(idx))
    ELSE IF Head(idx).t = "slice"
         THEN \A i \in 1..Len(SliceOf(a.e, Head(idx))) :
                  NpOk(SliceOf(a.e, Head(idx))[i], Tail(idx))
    ELSE FALSE

RECURSIVE NpIndex(_, _)
NpIndex(a, idx) ==
    IF idx = <<>> THEN a
    ELSE IF IsInt(Head(idx))
         THEN NpIndex(At(a.e, IntOf(Head(idx))), Tail(idx))
    ELSE LET s == SliceOf(a.e, Head(idx))
         IN  Arr([i \in 1..Len(s) |-> NpIndex(s[i], Tail(idx))])

(* v[index] for a member that is a list, a tuple or an array *)
SeqGetItem(h, v, index) ==
    IF IsInt(index)
    THEN IF InRange(IntOf(index), Len(v.e))
         THEN Ok(h, At(v.e, IntOf(index)))
         ELSE Raise(h, "IndexError")
    ELSE IF index.t = "slice"
    THEN Ok(h, [v EXCEPT !.e = SliceOf(v.e, index)])
    ELSE IF v.t = "arr" /\ index.t = "tuple"
    THEN IF NpOk(v, index.e) THEN Ok(h, NpIndex(v, index.e))
         ELSE Raise(h, "IndexError")
    ELSE IF v.t = "arr"
    THEN Raise(h, "IndexError")
    ELSE Raise(h, "TypeError")

(* len(v) *)
HasLen(v) == v.t \in {"list", "tuple", "arr", "dict", "ref"}

len(h, v) ==
    CASE v.t \in {"list", "tuple", "arr"} -> Len(v.e)
      [] v.t = "dict" -> Len(v.m)
      [] v.t = "ref" -> __len__(h, v.id)

(* --------------------------- class Batch ------------------------------ *)
(* The methods call each other through invoke, which binds the name of a  *)
(* call to its definition: invoke(<<"f", a, b>>) is the call f(a, b).      *)

RECURSIVE invoke(_)


(* value[index] on any object *)
getitem(h, v, index) ==
    CASE v.t = "ref" -> invoke(<<"__getitem__", h, v.id, index>>)
      [] v.t = "dict" ->
            IF index.t \in {"list", "dict", "ref"} THEN Raise(h, "TypeError")
            ELSE IF index.t = "str" /\ dict_contains(v.m, index.k)
                 THEN Ok(h, dict_getitem(v.m, index.k))
            ELSE Raise(h, "KeyError")
      [] v.t \in {"list", "tuple", "arr"} -> SeqGetItem(h, v, index)
      [] OTHER -> Raise(h, "TypeError")

(* self.__default(): the factories of the model are list, dict and Batch; *)
(* any other value here is not callable                                   *)
call_default(h, f) ==
    IF f.t # "fn" THEN Raise(h, "TypeError")
    ELSE CASE f.f = "list" -> Ok(h, List(<<>>))
           [] f.f = "dict" -> Ok(h, Dict(<<>>))
           [] f.f = "Batch" -> invoke(<<"Batch", h, <<>>, None, <<>>>>)

(* Batch.__init__(self, args, default, kwargs), lines 18-58.  The methods *)
(* it sets on the class (lines 35-55) are OPERATORS and IN_PLACE_OPERATORS *)
Batch(h, args, default, kwargs) ==
    LET h1 == New(h)
        self == Len(h1.objs)
        d0 == dict_setitem(<<>>, DEFAULT, default)
        d1 == dict_update(d0, kwargs)
        d2 == dict_setitem(d1, IN_PLACE, Bool(FALSE))
        d3 == IF Len(args) = 1 /\ args[1].t = "dict"
              THEN dict_update(d2, args[1].m)
              ELSE d2
    IN  invoke(<<"_batchify", SetDict(h1, self, d3), self>>)

_batchify(h, self) == invoke(<<"_batchify_for", h, self, keys(h, self)>>)

_batchify_for(h, self, ks) ==
    IF ks = <<>> THEN Ok(h, Ref(self))
    ELSE LET g == invoke(<<"__getitem__", h, self, Str(Head(ks))>>)
             b == invoke(<<"Batch", g.h, <<g.r>>, None, <<>>>>)
             s == invoke(<<"__setitem__", b.h, self, Str(Head(ks)), b.r>>)
         IN  IF g.err # "ok" THEN g
             ELSE IF g.r.t # "dict" THEN invoke(<<"_batchify_for", g.h, self, Tail(ks)>>)
             ELSE IF b.err # "ok" THEN b
             ELSE IF s.err # "ok" THEN s
             ELSE invoke(<<"_batchify_for", s.h, self, Tail(ks)>>)

(* type(index_or_key[0]) == type(idx) for every idx *)
SameTypes(e) == \A i \in 1..Len(e) : e[i].t = e[1].t

__getitem__(h, self, index_or_key) ==
    CASE index_or_key.t = "none" -> Ok(h, Ref(self))
      [] index_or_key.t = "str" -> invoke(<<"_getitem_key", h, self, index_or_key.k>>)
      [] IsInt(index_or_key) -> invoke(<<"_getitem_index", h, self, index_or_key>>)
      [] index_or_key.t \in {"tuple", "list"} ->
            IF Len(index_or_key.e) = 0 THEN invoke(<<"Batch", h, <<>>, None, <<>>>>)
            ELSE IF SameTypes(index_or_key.e)
            THEN IF IsInt(index_or_key.e[1])
                 THEN invoke(<<"_getitem_index", h, self, index_or_key>>)
                 ELSE IF index_or_key.e[1].t = "str"
                 THEN LET other == invoke(<<"Batch", h, <<>>, None, <<>>>>)
                      IN  invoke(<<"__getitem___for", other.h, self, other.r.id, index_or_key.e>>)
                 ELSE Raise(h, "NotImplementedError")
            ELSE IF \A i \in 1..Len(index_or_key.e) :
                       IsInt(index_or_key.e[i]) \/ index_or_key.e[i].t = "slice"
                 THEN invoke(<<"_getitem_index", h, self, index_or_key>>)
                 ELSE Raise(h, "AssertionError")
      [] OTHER -> Raise(h, "NotImplementedError")

(* lines 304-306: for key in index_or_key: other[key] = self._getitem_key(key) *)
__getitem___for(h, self, other, ks) ==
    IF ks = <<>> THEN Ok(h, Ref(other))
    ELSE LET g == invoke(<<"_getitem_key", h, self, Head(ks).k>>)
             s == invoke(<<"__setitem__", g.h, other, Head(ks), g.r>>)
         IN  IF g.err # "ok" THEN g
             ELSE IF s.err # "ok" THEN s
             ELSE invoke(<<"__getitem___for", s.h, self, other, Tail(ks)>>)

(* _getitem_key with the two lookups of lines 322-331 in the other order: *)
(* the dot-path is followed before the key is looked up in the dictionary *)
_getitem_key_path_first(h, self, key) ==
    LET stored == dict_contains(DictOf(h, self), key)
        root == invoke(<<"_getitem_key", h, self, <<Head(key)>>>>)
        sub == IF root.err # "ok" THEN root
               ELSE invoke(<<"getitem", root.h, root.r, Str(Tail(key))>>)
        dotted == Len(key) > 1
        h1 == IF dotted THEN sub.h ELSE h
        default == dict_getitem(DictOf(h1, self), DEFAULT)
        made == invoke(<<"call_default", h1, default>>)
    IN  IF dotted /\ sub.err = "ok" THEN sub
        ELSE IF stored THEN Ok(h, dict_getitem(DictOf(h, self), key))
        ELSE IF dotted /\ sub.err # "KeyError" THEN sub
        ELSE IF default # None
        THEN IF made.err # "ok" THEN made
             ELSE Ok(SetDict(made.h, self,
                             dict_setitem(DictOf(made.h, self), key, made.r)),
                     made.r)
        ELSE Raise(h1, "KeyError")

_getitem_key(h, self, key) ==
    IF dict_contains(DictOf(h, self), key)
    THEN Ok(h, dict_getitem(DictOf(h, self), key))
    ELSE LET root == invoke(<<"_getitem_key", h, self, <<Head(key)>>>>)
             sub == IF root.err # "ok" THEN root
                    ELSE invoke(<<"getitem", root.h, root.r, Str(Tail(key))>>)
             dotted == Len(key) > 1
             h1 == IF dotted THEN sub.h ELSE h
             default == dict_getitem(DictOf(h1, self), DEFAULT)
             made == invoke(<<"call_default", h1, default>>)
         IN  IF dotted /\ sub.err # "KeyError" THEN sub
             ELSE IF default # None
             THEN IF made.err # "ok" THEN made
                  ELSE Ok(SetDict(made.h, self,
                                  dict_setitem(DictOf(made.h, self), key, made.r)),
                          made.r)
             ELSE Raise(h1, "KeyError")

_getitem_index(h, self, index) ==
    LET other == invoke(<<"Batch", h, <<>>, None, <<>>>>)
    IN  invoke(<<"_getitem_index_for", other.h, self, other.r.id, index, keys(other.h, self)>>)

(* line 348 with the index dropped: other.__dict__[key] = self.__dict__[key] *)
_getitem_index_for_whole(h, self, other, index, ks) ==
    IF ks = <<>> THEN Ok(h, Ref(other))
    ELSE invoke(<<"_getitem_index_for",
           SetDict(h, other, dict_setitem(DictOf(h, other), Head(ks),
                                          dict_getitem(DictOf(h, self), Head(ks)))),
           self, other, index, Tail(ks)>>)

_getitem_index_for(h, self, other, index, ks) ==
    IF ks = <<>> THEN Ok(h, Ref(other))
    ELSE LET g == invoke(<<"getitem", h, dict_getitem(DictOf(h, self), Head(ks)), index>>)
         IN  IF g.err # "ok" THEN g
             ELSE invoke(<<"_getitem_index_for", 
                    SetDict(g.h, other, dict_setitem(DictOf(g.h, other), Head(ks), g.r)),
                    self, other, index, Tail(ks)>>)

__setitem__(h, self, index_or_key, value) ==
    CASE index_or_key.t = "str" -> invoke(<<"_setitem_key", h, self, index_or_key.k, value>>)
      [] IsInt(index_or_key) ->
            invoke(<<"_setitem_index", h, self, index_or_key, value, keys(h, self)>>)
      [] index_or_key.t \in {"tuple", "list"} ->
            IF Len(index_or_key.e) = 0 THEN Raise(h, "IndexError")
            ELSE IF ~SameTypes(index_or_key.e) THEN Raise(h, "AssertionError")
            ELSE IF IsInt(index_or_key.e[1])
            THEN invoke(<<"_setitem_index", h, self, index_or_key, value, keys(h, self)>>)
            ELSE IF index_or_key.e[1].t = "str"
            THEN IF value.t # "ref" THEN Raise(h, "AssertionError")
                 ELSE invoke(<<"__setitem___for", h, self, value.id, index_or_key.e>>)
            ELSE Raise(h, "NotImplementedError")
      [] OTHER -> Raise(h, "NotImplementedError")

(* lines 383-385 *)
__setitem___for(h, self, value, ks) ==
    IF ks = <<>> THEN Ok(h, Ref(self))
    ELSE LET g == invoke(<<"_getitem_key", h, value, Head(ks).k>>)
             s == invoke(<<"_setitem_key", g.h, self, Head(ks).k, g.r>>)
         IN  IF g.err # "ok" THEN g
             ELSE IF s.err # "ok" THEN s
             ELSE invoke(<<"__setitem___for", s.h, self, value, Tail(ks)>>)

_setitem_key(h, self, key, value) ==
    LET sub_item == invoke(<<"__getitem__", h, self, Str(<<Head(key)>>)>>)
        dotted == Len(key) > 1
        h1 == IF dotted THEN sub_item.h ELSE h
    IN  IF dotted /\ sub_item.err \notin {"ok", "KeyError"} THEN sub_item
        ELSE IF dotted /\ sub_item.err = "ok" /\ sub_item.r.t = "ref"
        THEN invoke(<<"_setitem_key", h1, sub_item.r.id, Tail(key), value>>)
        ELSE Ok(SetDict(h1, self, dict_setitem(DictOf(h1, self), key, value)),
                Ref(self))

(* lines 417-420; ks is what is left of self.keys() *)
_setitem_index(h, self, index, value, ks) ==
    IF value.t # "ref" THEN Raise(h, "AssertionError")
    ELSE IF ks = <<>> THEN Ok(h, Ref(self))
    ELSE IF ~dict_contains(DictOf(h, value.id), Head(ks)) THEN Raise(h, "KeyError")
    ELSE LET g == invoke(<<"getitem", h, dict_getitem(DictOf(h, value.id), Head(ks)), index>>)
         IN  IF g.err # "ok" THEN g
             ELSE invoke(<<"_setitem_index", 
                    SetDict(g.h, self, dict_setitem(DictOf(g.h, self), Head(ks), g.r)),
                    self, index, value, Tail(ks)>>)

__delitem__(h, self, k) ==
    IF k.t # "str" THEN Raise(h, "AssertionError")
    ELSE IF ~dict_contains(DictOf(h, self), k.k) THEN Raise(h, "KeyError")
    ELSE Ok(SetDict(h, self, dict_delitem(DictOf(h, self), k.k)), None)

__contains__(h, self, key) ==
    LET g == invoke(<<"__getitem__", h, self, key>>)
    IN  IF g.err = "KeyError" THEN Ok(g.h, Bool(FALSE))
        ELSE IF g.err # "ok" THEN g
        ELSE IF ~HasLen(g.r) THEN Raise(g.h, "TypeError")
        ELSE Ok(g.h, Bool(len(g.h, g.r) > 0))

(* items(): the public entries of a Batch; data.items() of a dict *)
items(h, v) ==
    IF v.t = "dict" THEN v.m
    ELSE SelectSeq(DictOf(h, v.id), LAMBDA e : ~startswith(e.k))

from_dict(h, data) ==
    LET other == invoke(<<"Batch", h, <<>>, None, <<>>>>)
    IN  invoke(<<"from_dict_for", other.h, other.r.id, items(other.h, data)>>)

from_dict_for(h, other, its) ==
    IF its = <<>> THEN Ok(h, Ref(other))
    ELSE LET value == Head(its).v
             v == IF value.t \in {"dict", "ref"} THEN invoke(<<"from_dict", h, value>>)
                  ELSE Ok(h, value)
             s == invoke(<<"__setitem__", v.h, other, Str(Head(its).k), v.r>>)
         IN  IF v.err # "ok" THEN v
             ELSE IF s.err # "ok" THEN s
             ELSE invoke(<<"from_dict_for", s.h, other, Tail(its)>>)

to_dict(h, self) == invoke(<<"to_dict_for", h, self, <<>>, keys(h, self)>>)

(* to_dict without the recursion of lines 247-248: a nested Batch is      *)
(* stored as it is                                                         *)
to_dict_for_flat(h, self, other, ks) ==
    IF ks = <<>> THEN Ok(h, Dict(other))
    ELSE LET g == invoke(<<"__getitem__", h, self, Str(Head(ks))>>)
         IN  IF g.err # "ok" THEN g
             ELSE invoke(<<"to_dict_for", g.h, self, dict_setitem(other, Head(ks), g.r), Tail(ks)>>)

to_dict_for(h, self, other, ks) ==
    IF ks = <<>> THEN Ok(h, Dict(other))
    ELSE LET g == invoke(<<"__getitem__", h, self, Str(Head(ks))>>)
             v == IF g.r.t = "ref" THEN invoke(<<"to_dict", g.h, g.r.id>>) ELSE g
         IN  IF g.err # "ok" THEN g
             ELSE IF v.err # "ok" THEN v
             ELSE invoke(<<"to_dict_for", v.h, self, dict_setitem(other, Head(ks), v.r), Tail(ks)>>)

(* the keys of all_keys (a set) in the order its iteration yields them:    *)
(* the order is not specified, order is the one this run has               *)
all_keys(h, batch_args, order) ==
    SelectSeq(order, LAMBDA k : \E i \in 1..Len(batch_args) :
                  \E j \in 1..Len(keys(h, batch_args[i].id)) :
                      keys(h, batch_args[i].id)[j] = k)

from_batch_list(h, args, order) ==
    LET other == invoke(<<"Batch", h, <<>>, None, <<>>>>)
        filled == invoke(<<"from_batch_list_keys", other.h, other.r.id, args,
                                       all_keys(other.h, args, order)>>)
    IN  IF \E i \in 1..Len(args) : args[i].t # "ref"
        THEN Raise(other.h, "AttributeError")
        ELSE IF filled.err # "ok" THEN filled
        ELSE invoke(<<"from_batch_list_convert", filled.h, other.r.id, order,
                                     keys(filled.h, other.r.id)>>)

(* line 106: [batch_arg[key] for batch_arg in batch_args if key in batch_arg]; *)
(* r is the list so far                                                       *)
from_batch_list_members(h, key, batch_args, r) ==
    IF batch_args = <<>> THEN Ok(h, List(r))
    ELSE LET c == invoke(<<"__contains__", h, Head(batch_args).id, Str(key)>>)
             g == invoke(<<"__getitem__", c.h, Head(batch_args).id, Str(key)>>)
         IN  IF c.err # "ok" THEN c
             ELSE IF ~c.r.b
             THEN invoke(<<"from_batch_list_members", c.h, key, Tail(batch_args), r>>)
             ELSE IF g.err # "ok" THEN g
             ELSE invoke(<<"from_batch_list_members", g.h, key, Tail(batch_args), Append(r, g.r)>>)

(* lines 105-106 *)
from_batch_list_keys(h, other, batch_args, ks) ==
    IF ks = <<>> THEN Ok(h, Ref(other))
    ELSE LET m == invoke(<<"from_batch_list_members", h, Head(ks), batch_args, <<>>>>)
         IN  IF m.err # "ok" THEN m
             ELSE invoke(<<"from_batch_list_keys", 
                    SetDict(m.h, other, dict_setitem(DictOf(m.h, other), Head(ks), m.r)),
                    other, batch_args, Tail(ks)>>)

(* lines 109-111 *)
from_batch_list_convert(h, other, order, ks) ==
    IF ks = <<>> THEN Ok(h, Ref(other))
    ELSE LET g == invoke(<<"__getitem__", h, other, Str(Head(ks))>>)
             first == invoke(<<"getitem", g.h, g.r, PyInt(0)>>)
             sub == invoke(<<"from_batch_list", first.h, g.r.e, order>>)
             s == invoke(<<"__setitem__", sub.h, other, Str(Head(ks)), sub.r>>)
         IN  IF g.err # "ok" THEN g
             ELSE IF first.err # "ok" THEN first
             ELSE IF first.r.t # "ref"
             THEN invoke(<<"from_batch_list_convert", first.h, other, order, Tail(ks)>>)
             ELSE IF sub.err # "ok" THEN sub
             ELSE IF s.err # "ok" THEN s
             ELSE invoke(<<"from_batch_list_convert", s.h, other, order, Tail(ks)>>)

(* ------------------------------- copy --------------------------------- *)

OkM(h, r, memo) == [h |-> h, r |-> r, err |-> "ok", memo |-> memo]

MemoHas(memo, id) == \E i \in 1..Len(memo) : memo[i].src = id
MemoGet(memo, id) == memo[CHOOSE i \in 1..Len(memo) : memo[i].src = id].dst


(* copy.deepcopy(x, memo): members are copied by value, Batches through    *)
(* __deepcopy__, and memo keeps the copy of every Batch already copied     *)
deepcopy(h, x, memo) ==
    CASE x.t = "ref" ->
            IF MemoHas(memo, x.id) THEN OkM(h, Ref(MemoGet(memo, x.id)), memo)
            ELSE LET y == invoke(<<"__deepcopy__", h, x.id, memo>>)
                 IN  IF y.err # "ok" THEN y
                     ELSE [y EXCEPT !.memo = Append(y.memo, [src |-> x.id, dst |-> y.r.id])]
      [] x.t \in {"list", "tuple"} ->
            LET es == invoke(<<"deepcopy_seq", h, x.e, memo, <<>>>>)
            IN  IF es.err # "ok" THEN es ELSE [es EXCEPT !.r = [x EXCEPT !.e = es.r.e]]
      [] OTHER -> OkM(h, x, memo)

deepcopy_seq(h, e, memo, r) ==
    IF e = <<>> THEN OkM(h, List(r), memo)
    ELSE LET y == invoke(<<"deepcopy", h, Head(e), memo>>)
         IN  IF y.err # "ok" THEN y
             ELSE invoke(<<"deepcopy_seq", y.h, Tail(e), y.memo, Append(r, y.r)>>)

__deepcopy__(h, self, memo) ==
    LET other == invoke(<<"Batch", h, <<>>, None, <<>>>>)
    IN  invoke(<<"__deepcopy___for", other.h, self, other.r.id, memo, keys(other.h, self)>>)

__deepcopy___for(h, self, other, memo, ks) ==
    IF ks = <<>> THEN OkM(h, Ref(other), memo)
    ELSE LET g == invoke(<<"__getitem__", h, self, Str(Head(ks))>>)
             y == invoke(<<"deepcopy", g.h, g.r, memo>>)
             s == invoke(<<"__setitem__", y.h, other, Str(Head(ks)), y.r>>)
         IN  IF g.err # "ok" THEN g @@ [memo |-> memo]
             ELSE IF y.err # "ok" THEN y
             ELSE IF s.err # "ok" THEN s @@ [memo |-> y.memo]
             ELSE invoke(<<"__deepcopy___for", s.h, self, other, y.memo, Tail(ks)>>)

(* copy.copy(self): object.__reduce_ex__ takes the state from __getstate__, *)
(* which is self.__dict__ itself, and the new object, made without         *)
(* __init__, is given it by __setstate__: self.__dict__ = d                *)
__copy__(h, self) ==
    Ok([h EXCEPT !.objs = Append(h.objs, h.objs[self])], Ref(Len(h.objs) + 1))

copy(h, self, deep) ==
    IF deep
    THEN LET y == invoke(<<"deepcopy", h, Ref(self), <<>>>>)
         IN  [h |-> y.h, r |-> y.r, err |-> y.err]
    ELSE invoke(<<"__copy__", h, self>>)

(* ------------------------- remap and update --------------------------- *)

remap(h, self, mapping) ==
    LET other == invoke(<<"Batch", h, <<>>, None, <<>>>>)
    IN  invoke(<<"remap_for", other.h, self, other.r.id, mapping>>)

remap_for(h, self, other, its) ==
    IF its = <<>> THEN Ok(h, Ref(other))
    ELSE LET old_key == Str(Head(its).k)
             new_key == Head(its).v
             c == invoke(<<"__contains__", h, self, old_key>>)
             g == invoke(<<"__getitem__", c.h, self, old_key>>)
             s == IF c.r.b THEN invoke(<<"__setitem__", g.h, other, new_key, g.r>>)
                  ELSE invoke(<<"__setitem__", c.h, other, new_key, None>>)
         IN  IF new_key.t # "str" THEN Raise(h, "AssertionError")
             ELSE IF c.err # "ok" THEN c
             ELSE IF c.r.b /\ g.err # "ok" THEN g
             ELSE IF s.err # "ok" THEN s
             ELSE invoke(<<"remap_for", s.h, self, other, Tail(its)>>)

update_for(h, self, args) ==
    IF args = <<>> THEN Ok(h, Ref(self))
    ELSE IF Head(args).t = "dict"
    THEN invoke(<<"update_for", SetDict(h, self, dict_update(DictOf(h, self), Head(args).m)),
                    self, Tail(args)>>)
    ELSE IF Head(args).t = "ref"
    THEN invoke(<<"update_for", SetDict(h, self, dict_update(DictOf(h, self),
                                                 DictOf(h, Head(args).id))),
                    self, Tail(args)>>)
    ELSE Raise(h, "NotImplementedError")

update(h, self, args, kwargs) ==
    LET u == invoke(<<"update_for", h, self, args>>)
    IN  IF u.err # "ok" THEN u
        ELSE Ok(SetDict(u.h, self, dict_update(DictOf(u.h, self), kwargs)), Ref(self))

(* ------------------- member attributes and operators ------------------ *)

NotImplemented == [t |-> "notimpl"]

(* lines 38-48 and 51-54: the methods __init__ sets on the class *)
OPERATORS ==
    {"__not__", "__abs__", "__index__", "__inv__", "__invert__", "__neg__", "__pos__",
     "__add__", "__and__", "__concat__", "__floordiv__", "__lshift__", "__mod__",
     "__mul__", "__or__", "__pow__", "__rshift__", "__sub__", "__truediv__", "__xor__",
     "__eq__", "__radd__", "__rand__", "__rmul__", "__ror__", "__rsub__", "__rxor__"}

IN_PLACE_OPERATORS ==
    {"__iadd__", "__iand__", "__iconcat__", "__ifloordiv__", "__ilshift__", "__imod__",
     "__imul__", "__ior__", "__ipow__", "__irshift__", "__isub__", "__itruediv__",
     "__ixor__"}

(* The attributes of the members.  int has every operator of OPERATORS but  *)
(* __not__, __inv__ and __concat__ and no in-place operator; list has      *)
(* __add__, __mul__, __rmul__, __eq__, __iadd__ and __imul__; None has     *)
(* __eq__; a Namespace has its data attribute x and __eq__.                *)
IntAttributes == OPERATORS \ {"__not__", "__inv__", "__concat__"}
ListAttributes == {"__add__", "__mul__", "__rmul__", "__eq__", "__iadd__", "__imul__"}
UnaryOperators == {"__abs__", "__index__", "__neg__", "__pos__"}

(* the int methods, for the arithmetic the model computes *)
IntCall(h, x, name, args) ==
    IF name \in UnaryOperators
    THEN IF Len(args) # 0 THEN Raise(h, "TypeError")
         ELSE CASE name = "__neg__" -> Ok(h, PyInt(0 - x))
                [] name = "__abs__" -> Ok(h, PyInt(IF x < 0 THEN 0 - x ELSE x))
                [] OTHER -> Ok(h, PyInt(x))
    ELSE IF Len(args) # 1 THEN Raise(h, "TypeError")
    ELSE IF ~IsInt(args[1]) THEN Ok(h, NotImplemented)
    ELSE CASE name \in {"__add__", "__radd__"} -> Ok(h, PyInt(x + IntOf(args[1])))
           [] name = "__sub__" -> Ok(h, PyInt(x - IntOf(args[1])))
           [] name = "__rsub__" -> Ok(h, PyInt(IntOf(args[1]) - x))
           [] name \in {"__mul__", "__rmul__"} -> Ok(h, PyInt(x * IntOf(args[1])))
           [] name = "__eq__" -> Ok(h, Bool(x = IntOf(args[1])))

(* the list methods __add__, __iadd__ and __eq__ *)
ListCall(h, x, name, args) ==
    IF Len(args) # 1 THEN Raise(h, "TypeError")
    ELSE CASE name = "__add__" ->
                IF args[1].t = "list" THEN Ok(h, List(x \o args[1].e))
                ELSE Raise(h, "TypeError")
           [] name = "__iadd__" ->
                IF args[1].t \in {"list", "tuple"} THEN Ok(h, List(x \o args[1].e))
                ELSE Raise(h, "TypeError")
           [] name = "__eq__" ->
                IF args[1].t = "list" THEN Ok(h, Bool(x = args[1].e))
                ELSE Ok(h, NotImplemented)

(* bool(v) *)
Truthy(v) ==
    CASE v.t = "bool" -> v.b
      [] v.t = "int" -> v.n # 0
      [] v.t = "none" -> FALSE
      [] v.t \in {"list", "tuple"} -> Len(v.e) > 0
      [] OTHER -> TRUE


(* getattr(attr, name); hasattr(attr, name) is: it does not raise AttributeError *)
getattr(h, attr, name) ==
    CASE attr.t = "ref" -> invoke(<<"__getattribute__", h, attr.id, name>>)
      [] attr.t \in {"int", "bool"} ->
            IF name \in IntAttributes THEN Ok(h, Method(attr, name))
            ELSE Raise(h, "AttributeError")
      [] attr.t = "list" ->
            IF name \in ListAttributes THEN Ok(h, Method(attr, name))
            ELSE Raise(h, "AttributeError")
      [] attr.t = "ns" ->
            IF name = "x" THEN Ok(h, attr.x)
            ELSE IF name = "__eq__" THEN Ok(h, Method(attr, name))
            ELSE Raise(h, "AttributeError")
      [] OTHER ->
            IF name = "__eq__" THEN Ok(h, Method(attr, name))
            ELSE Raise(h, "AttributeError")

(* object.__getattribute__ finds an entry of the instance __dict__ before a *)
(* function of the class; the class of the model has the operator methods  *)
__getattribute__(h, self, name) ==
    IF dict_contains(DictOf(h, self), <<name>>)
    THEN Ok(h, dict_getitem(DictOf(h, self), <<name>>))
    ELSE IF name \in OPERATORS \cup IN_PLACE_OPERATORS
    THEN Ok(h, Method(Ref(self), name))
    ELSE invoke(<<"_get_member_attribute", h, self, name, FALSE>>)

_get_member_attribute(h, self, name, in_place) ==
    LET other == IF in_place THEN Ok(h, Ref(self)) ELSE invoke(<<"Batch", h, <<>>, None, <<>>>>)
        h1 == SetDict(other.h, other.r.id,
                      dict_setitem(DictOf(other.h, other.r.id), IN_PLACE, Bool(in_place)))
    IN  IF __len__(h, self) = 0 THEN Raise(h, "AttributeError")
        ELSE invoke(<<"_get_member_attribute_for", h1, self, other.r.id, name, keys(h1, self)>>)

_get_member_attribute_for(h, self, other, name, ks) ==
    IF ks = <<>> THEN Ok(h, Ref(other))
    ELSE LET attr == dict_getitem(DictOf(h, self), Head(ks))
             has == invoke(<<"getattr", h, attr, name>>)
             got == invoke(<<"getattr", has.h, attr, name>>)
         IN  IF has.err # "ok" THEN has
             ELSE IF got.err # "ok" THEN got
             ELSE invoke(<<"_get_member_attribute_for", 
                    SetDict(got.h, other, dict_setitem(DictOf(got.h, other), Head(ks), got.r)),
                    self, other, name, Tail(ks)>>)

(* lines 35-36: the method make_func(name, in_place) sets on the class *)
make_func(h, caller, name, args) ==
    LET m == invoke(<<"_get_member_attribute", h, caller, name, name \in IN_PLACE_OPERATORS>>)
    IN  IF m.err # "ok" THEN m ELSE invoke(<<"__call__", m.h, m.r.id, args>>)

(* f(args): calling an object *)
call(h, f, args) ==
    CASE f.t = "ref" -> invoke(<<"__call__", h, f.id, args>>)
      [] f.t = "meth" /\ f.self.t = "ref" -> invoke(<<"make_func", h, f.self.id, f.name, args>>)
      [] f.t = "meth" /\ f.self.t \in {"int", "bool"} ->
            IntCall(h, IntOf(f.self), f.name, args)
      [] f.t = "meth" /\ f.self.t = "list" -> ListCall(h, f.self.e, f.name, args)
      [] f.t = "meth" /\ f.name = "__eq__" ->
            IF Len(args) # 1 THEN Raise(h, "TypeError")
            ELSE IF f.self = args[1] THEN Ok(h, Bool(TRUE)) ELSE Ok(h, NotImplemented)
      [] OTHER -> Raise(h, "TypeError")

(* line 549 without the indexing of the Batch arguments: every member is  *)
(* called with the arguments as they are                                   *)
args_for_key_whole(h, key, args, r) == Ok(h, List(args))

(* line 549: [arg if not isinstance(arg, Batch) else arg[key] for arg in args] *)
args_for_key(h, key, args, r) ==
    IF args = <<>> THEN Ok(h, List(r))
    ELSE LET g == IF Head(args).t = "ref" THEN invoke(<<"__getitem__", h, Head(args).id, Str(key)>>)
                  ELSE Ok(h, Head(args))
         IN  IF g.err # "ok" THEN g
             ELSE invoke(<<"args_for_key", g.h, key, Tail(args), Append(r, g.r)>>)

__call__(h, self, args) ==
    LET other == IF Truthy(dict_getitem(DictOf(h, self), IN_PLACE))
                 THEN Ok(h, Ref(self))
                 ELSE invoke(<<"Batch", h, <<>>, None, <<>>>>)
    IN  invoke(<<"__call___for", other.h, self, other.r.id, args, keys(other.h, self)>>)

__call___for(h, self, other, args, ks) ==
    IF ks = <<>> THEN Ok(h, Ref(other))
    ELSE LET a == invoke(<<"args_for_key", h, Head(ks), args, <<>>>>)
             c == invoke(<<"call", a.h, dict_getitem(DictOf(a.h, self), Head(ks)), a.r.e>>)
         IN  IF a.err # "ok" THEN a
             ELSE IF c.err # "ok" THEN c
             ELSE invoke(<<"__call___for", 
                    SetDict(c.h, other, dict_setitem(DictOf(c.h, other), Head(ks), c.r)),
                    self, other, args, Tail(ks)>>)

(* ------------------------- flatten and add_prefix --------------------- *)

(* key + separator + sub of three strings: with the separator "." the     *)
(* segments of sub follow those of key, with another separator the last   *)
(* segment of key and the first of sub become one segment                 *)
plus(key, separator, sub) ==
    IF separator = "." THEN key \o sub
    ELSE SubSeq(key, 1, Len(key) - 1)
         \o <<key[Len(key)] \o separator \o sub[1]>>
         \o Tail(sub)

(* line 196 without the prefix: other[key] = self[key] *)
add_prefix_for_bare(h, self, other, prefix, ks) ==
    IF ks = <<>> THEN Ok(h, Ref(other))
    ELSE LET g == invoke(<<"__getitem__", h, self, Str(Head(ks))>>)
             s == invoke(<<"__setitem__", g.h, other, Str(Head(ks)), g.r>>)
         IN  IF g.err # "ok" THEN g
             ELSE IF s.err # "ok" THEN s
             ELSE invoke(<<"add_prefix_for", s.h, self, other, prefix, Tail(ks)>>)

(* prefix is the string prefix.k + prefix.sep *)
add_prefix_for(h, self, other, prefix, ks) ==
    IF ks = <<>> THEN Ok(h, Ref(other))
    ELSE LET g == invoke(<<"__getitem__", h, self, Str(Head(ks))>>)
             s == invoke(<<"__setitem__", g.h, other,
                           Str(plus(prefix.k, prefix.sep, Head(ks))), g.r>>)
         IN  IF g.err # "ok" THEN g
             ELSE IF s.err # "ok" THEN s
             ELSE invoke(<<"add_prefix_for", s.h, self, other, prefix, Tail(ks)>>)

add_prefix(h, self, prefix) ==
    LET other == invoke(<<"Batch", h, <<>>, None, <<>>>>)
    IN  invoke(<<"add_prefix_for", other.h, self, other.r.id, prefix, keys(other.h, self)>>)

flatten_for(h, self, other, separator, ks) ==
    IF ks = <<>> THEN Ok(h, Ref(other))
    ELSE LET g == invoke(<<"__getitem__", h, self, Str(Head(ks))>>)
             f == invoke(<<"flatten", g.h, g.r.id, separator>>)
             a == invoke(<<"add_prefix", f.h, f.r.id, [k |-> Head(ks), sep |-> separator]>>)
             u == invoke(<<"update", a.h, other, <<a.r>>, <<>>>>)
             s == invoke(<<"__setitem__", g.h, other, Str(Head(ks)), g.r>>)
         IN  IF g.err # "ok" THEN g
             ELSE IF g.r.t = "ref"
             THEN IF f.err # "ok" THEN f
                  ELSE IF a.err # "ok" THEN a
                  ELSE IF u.err # "ok" THEN u
                  ELSE invoke(<<"flatten_for", u.h, self, other, separator, Tail(ks)>>)
             ELSE IF s.err # "ok" THEN s
             ELSE invoke(<<"flatten_for", s.h, self, other, separator, Tail(ks)>>)

flatten(h, self, separator) ==
    LET other == invoke(<<"Batch", h, <<>>, None, <<>>>>)
    IN  invoke(<<"flatten_for", other.h, self, other.r.id, separator, keys(other.h, self)>>)

(* ---------------------- keys and query_wildcard ------------------------ *)

Generator(e) == [t |-> "generator", e |-> e]

(* lines 437-443: the keys of the members, those of a nested Batch joined *)
(* to its key with "."                                                     *)
keys_for(h, self, depth, ks) ==
    IF ks = <<>> THEN <<>>
    ELSE LET value == dict_getitem(DictOf(h, self), Head(ks))
             sub == invoke(<<"keys_depth", h, value.id, IF depth > 0 THEN depth - 1 ELSE -1>>)
             rest == invoke(<<"keys_for", h, self, depth, Tail(ks)>>)
         IN  IF startswith(Head(ks)) THEN rest
             ELSE IF value.t = "ref"
             THEN [i \in 1..Len(sub) |-> Head(ks) \o sub[i]] \o rest
             ELSE <<Head(ks)>> \o rest

(* the keys that keys(depth) yields, in order *)
keys_depth(h, self, depth) ==
    IF depth = 0 THEN keys(h, self)
    ELSE invoke(<<"keys_for", h, self, depth, dict_keys(DictOf(h, self))>>)

(* a call of keys with positional and keyword arguments, bound to the    *)
(* signature def keys(self, depth=0)                                      *)
keys_call(h, self, args, kwargs) ==
    LET given == dict_contains(kwargs, <<"depth">>)
        depth == IF Len(args) = 1 THEN IntOf(args[1])
                 ELSE IF given THEN IntOf(dict_getitem(kwargs, <<"depth">>))
                 ELSE 0
    IN  IF \/ \E i \in 1..Len(kwargs) : kwargs[i].k # <<"depth">>
           \/ Len(args) > 1
           \/ (Len(args) = 1 /\ given)
        THEN Raise(h, "TypeError")
        ELSE IF depth < -1 THEN Raise(h, "AssertionError")
        ELSE IF depth = 0 THEN Ok(h, Generator(keys_depth(h, self, depth)))
        ELSE Ok(h, List([i \in 1..Len(keys_depth(h, self, depth)) |->
                             Str(keys_depth(h, self, depth)[i])]))

(* fnmatch.fnmatch(name, pat) for patterns of names and "*" joined by ".": *)
(* "*" matches every non-empty string                                      *)
RECURSIVE fnmatch(_, _)
fnmatch(name, pat) ==
    IF pat = <<>> THEN name = <<>>
    ELSE IF name = <<>> THEN FALSE
    ELSE IF Head(pat) = "*"
    THEN \E i \in 1..Len(name) : fnmatch(SubSeq(name, i + 1, Len(name)), Tail(pat))
    ELSE Head(name) = Head(pat) /\ fnmatch(Tail(name), Tail(pat))

(* line 360: [k for q in query for k in fnmatch.filter(self.keys(recursive=True), q)] *)
query_wildcard_for(h, self, query, queried_keys) ==
    IF query = <<>> THEN invoke(<<"__getitem__", h, self, List(queried_keys)>>)
    ELSE LET ks == invoke(<<"keys_call", h, self, <<>>,
                            <<Entry(<<"recursive">>, Bool(TRUE))>>>>)
         IN  IF ks.err # "ok" THEN ks
             ELSE invoke(<<"query_wildcard_for", ks.h, self, Tail(query),
                           queried_keys \o SelectSeq(ks.r.e,
                               LAMBDA k : fnmatch(k.k, Head(query).k))>>)

query_wildcard(h, self, query) ==
    invoke(<<"query_wildcard_for", h, self,
             IF query.t = "str" THEN <<query>> ELSE query.e, <<>>>>)

(* ---------------------------- from_tensor ------------------------------ *)

OrderedDict(m) == [t |-> "odict", m |-> m]

(* utils.split_list(tensor, chunk_size, dim): range(0, len(tensor),       *)
(* chunk_size) takes an integer step                                      *)
split_list(h, tensor, chunk_size, dim) ==
    IF dim # 0 THEN Raise(h, "AssertionError")
    ELSE IF ~IsInt(chunk_size) THEN Raise(h, "TypeError")
    ELSE IF IntOf(chunk_size) = 0 THEN Raise(h, "ValueError")
    ELSE IF IntOf(chunk_size) < 0 THEN Ok(h, List(<<>>))
    ELSE Ok(h, List([i \in 1..((Len(tensor.e) + IntOf(chunk_size) - 1) \div IntOf(chunk_size)) |->
                 Arr(SubSeq(tensor.e, (i - 1) * IntOf(chunk_size) + 1,
                            Min(i * IntOf(chunk_size), Len(tensor.e))))]))

(* a split_fn that returns (first_n, remainder) for the sizes [n, rest] *)
split(h, data, sizes, dim) ==
    Ok(h, Tuple(<<Arr(SliceOf(data.e, Slice(None, sizes.e[1]))),
                  Arr(SliceOf(data.e, Slice(sizes.e[1], None)))>>))

(* split_fn(data, sizes, dim) *)
split_fn_call(h, split_fn, data, sizes, dim) ==
    IF split_fn = Fn("split_list") THEN split_list(h, data, sizes, dim)
    ELSE split(h, data, sizes, dim)

(* data.shape[dim] of a one-dimensional tensor *)
shape(h, data, dim) ==
    IF dim = 0 THEN Ok(h, PyInt(Len(data.e))) ELSE Raise(h, "IndexError")

(* lines 86-90: for key, value in cat_map.items() *)
from_tensor_for(h, other, data, its, dim, split_fn) ==
    IF its = <<>> THEN Ok(h, Ref(other))
    ELSE LET key == Head(its).k
             value == Head(its).v
             n == shape(h, data, dim)
             parts == split_fn_call(h, split_fn, data,
                          List(<<value, PyInt(n.r.n - IntOf(value))>>), dim)
             s == invoke(<<"__setitem__", parts.h, other, Str(key), parts.r.e[1]>>)
             sub == invoke(<<"from_tensor", h, data, value, dim, split_fn>>)
             t == invoke(<<"__setitem__", sub.h, other, Str(key), sub.r>>)
         IN  IF IsInt(value)
             THEN IF n.err # "ok" THEN n
                  ELSE IF parts.err # "ok" THEN parts
                  ELSE IF parts.r.t \notin {"tuple", "list"} THEN Raise(h, "TypeError")
                  ELSE IF Len(parts.r.e) # 2 THEN Raise(h, "ValueError")
                  ELSE IF s.err # "ok" THEN s
                  ELSE invoke(<<"from_tensor_for", s.h, other, parts.r.e[2],
                                Tail(its), dim, split_fn>>)
             ELSE IF value.t = "odict"
             THEN IF sub.err # "ok" THEN sub
                  ELSE IF t.err # "ok" THEN t
                  ELSE invoke(<<"from_tensor_for", t.h, other, data,
                                Tail(its), dim, split_fn>>)
             ELSE invoke(<<"from_tensor_for", h, other, data, Tail(its), dim, split_fn>>)

from_tensor(h, data, cat_map, dim, split_fn) ==
    LET other == invoke(<<"Batch", h, <<>>, None, <<>>>>)
    IN  invoke(<<"from_tensor_for", other.h, other.r.id, data, cat_map.m, dim, split_fn>>)

(* the definitions invoke binds *)
bound(q) ==
    CASE q[1] = "getitem" -> getitem(q[2], q[3], q[4])
      [] q[1] = "call_default" -> call_default(q[2], q[3])
      [] q[1] = "Batch" -> Batch(q[2], q[3], q[4], q[5])
      [] q[1] = "_batchify" -> _batchify(q[2], q[3])
      [] q[1] = "_batchify_for" -> _batchify_for(q[2], q[3], q[4])
      [] q[1] = "__getitem__" -> __getitem__(q[2], q[3], q[4])
      [] q[1] = "__getitem___for" -> __getitem___for(q[2], q[3], q[4], q[5])
      [] q[1] = "_getitem_key" -> _getitem_key(q[2], q[3], q[4])
      [] q[1] = "_getitem_index" -> _getitem_index(q[2], q[3], q[4])
      [] q[1] = "_getitem_index_for" -> _getitem_index_for(q[2], q[3], q[4], q[5], q[6])
      [] q[1] = "__setitem__" -> __setitem__(q[2], q[3], q[4], q[5])
      [] q[1] = "__setitem___for" -> __setitem___for(q[2], q[3], q[4], q[5])
      [] q[1] = "_setitem_key" -> _setitem_key(q[2], q[3], q[4], q[5])
      [] q[1] = "_setitem_index" -> _setitem_index(q[2], q[3], q[4], q[5], q[6])
      [] q[1] = "__delitem__" -> __delitem__(q[2], q[3], q[4])
      [] q[1] = "__contains__" -> __contains__(q[2], q[3], q[4])
      [] q[1] = "from_dict" -> from_dict(q[2], q[3])
      [] q[1] = "from_dict_for" -> from_dict_for(q[2], q[3], q[4])
      [] q[1] = "to_dict" -> to_dict(q[2], q[3])
      [] q[1] = "to_dict_for" -> to_dict_for(q[2], q[3], q[4], q[5])
      [] q[1] = "from_batch_list" -> from_batch_list(q[2], q[3], q[4])
      [] q[1] = "from_batch_list_members" -> from_batch_list_members(q[2], q[3], q[4], q[5])
      [] q[1] = "from_batch_list_keys" -> from_batch_list_keys(q[2], q[3], q[4], q[5])
      [] q[1] = "from_batch_list_convert" -> from_batch_list_convert(q[2], q[3], q[4], q[5])
      [] q[1] = "deepcopy" -> deepcopy(q[2], q[3], q[4])
      [] q[1] = "deepcopy_seq" -> deepcopy_seq(q[2], q[3], q[4], q[5])
      [] q[1] = "__deepcopy__" -> __deepcopy__(q[2], q[3], q[4])
      [] q[1] = "__deepcopy___for" -> __deepcopy___for(q[2], q[3], q[4], q[5], q[6])
      [] q[1] = "__copy__" -> __copy__(q[2], q[3])
      [] q[1] = "copy" -> copy(q[2], q[3], q[4])
      [] q[1] = "remap" -> remap(q[2], q[3], q[4])
      [] q[1] = "remap_for" -> remap_for(q[2], q[3], q[4], q[5])
      [] q[1] = "update_for" -> update_for(q[2], q[3], q[4])
      [] q[1] = "update" -> update(q[2], q[3], q[4], q[5])
      [] q[1] = "getattr" -> getattr(q[2], q[3], q[4])
      [] q[1] = "__getattribute__" -> __getattribute__(q[2], q[3], q[4])
      [] q[1] = "_get_member_attribute" -> _get_member_attribute(q[2], q[3], q[4], q[5])
      [] q[1] = "_get_member_attribute_for" -> _get_member_attribute_for(q[2], q[3], q[4], q[5], q[6])
      [] q[1] = "make_func" -> make_func(q[2], q[3], q[4], q[5])
      [] q[1] = "call" -> call(q[2], q[3], q[4])
      [] q[1] = "args_for_key" -> args_for_key(q[2], q[3], q[4], q[5])
      [] q[1] = "__call__" -> __call__(q[2], q[3], q[4])
      [] q[1] = "__call___for" -> __call___for(q[2], q[3], q[4], q[5], q[6])
      [] q[1] = "add_prefix_for" -> add_prefix_for(q[2], q[3], q[4], q[5], q[6])
      [] q[1] = "add_prefix" -> add_prefix(q[2], q[3], q[4])
      [] q[1] = "flatten_for" -> flatten_for(q[2], q[3], q[4], q[5], q[6])
      [] q[1] = "flatten" -> flatten(q[2], q[3], q[4])
      [] q[1] = "keys_for" -> keys_for(q[2], q[3], q[4], q[5])
      [] q[1] = "keys_depth" -> keys_depth(q[2], q[3], q[4])
      [] q[1] = "keys_call" -> keys_call(q[2], q[3], q[4], q[5])
      [] q[1] = "query_wildcard_for" -> query_wildcard_for(q[2], q[3], q[4], q[5])
      [] q[1] = "query_wildcard" -> query_wildcard(q[2], q[3], q[4])
      [] q[1] = "from_tensor_for" -> from_tensor_for(q[2], q[3], q[4], q[5], q[6], q[7])
      [] q[1] = "from_tensor" -> from_tensor(q[2], q[3], q[4], q[5], q[6])

(* the call q, its arguments evaluated once *)
invoke(q) == CHOOSE r \in {bound(c) : c \in {q}} : TRUE

(* ------------------------- the client program ------------------------- *)
(* A client constructs Batches and calls their methods.  log records every *)
(* call: the operation, the receiver, the arguments, the heap before and   *)
(* after, the result and the exception.                                   *)

MaxCalls == 2
MaxKw == 2
MaxLen == 2

A == <<"a">>
B == <<"b">>
X == <<"x">>
AB == <<"a", "b">>
AX == <<"a", "x">>
BX == <<"b", "x">>

Call(op, self, args, pre, res) ==
    [op |-> op, self |-> self, args |-> args, pre |-> pre,
     post |-> res.h, r |-> res.r, err |-> res.err]

Do(op, self, args, res) ==
    /\ heap' = res.h
    /\ log' = Append(log, Call(op, self, args, heap, res))
    /\ frame' = frame

(* the state after the first call of a program *)
Begin(op, args, res) ==
    /\ heap = res.h
    /\ log = <<Call(op, 0, args, EmptyHeap, res)>>
    /\ frame = None

(* the Batches the client holds: the results of its calls *)
Handles ==
    {log[i].r.id : i \in {j \in 1..Len(log) : log[j].err = "ok" /\ log[j].r.t = "ref"}}

(* the dicts of at most n entries with keys of K and values of V *)
Dicts(K, V, n) ==
    {d \in UNION {[1..m -> {Entry(k, v) : k \in K, v \in V}] : m \in 0..n} :
         \A i, j \in 1..Len(d) : i # j => d[i].k # d[j].k}

StrTuple(ks) == Tuple([i \in 1..Len(ks) |-> Str(ks[i])])

(* the binding of the keywords kw of a call of Batch to the parameters of *)
(* __init__: default is a parameter, every other keyword goes to kwargs   *)
DefaultKw == <<"default">>
BatchCall(h, kw) ==
    Batch(h, <<>>,
          IF dict_contains(kw, DefaultKw) THEN dict_getitem(kw, DefaultKw) ELSE None,
          dict_delitem(kw, DefaultKw))

(* --- Spec: Batches that are assigned to, updated, read, copied, remapped *)
(* and merged                                                              *)

Values == {PyInt(1), List(<<>>), Dict(<<Entry(X, PyInt(1))>>)}
Factories == {Fn("Batch"), Fn("list")}
Kwargs ==
    Dicts({A, AX}, Values, MaxKw) \cup
    {<<Entry(DefaultKw, f)>> \o d : f \in Factories, d \in Dicts({A}, Values, 1)}

Construct ==
    /\ Len(log) <= MaxCalls
    /\ \E kw \in Kwargs : Do("Batch", 0, Dict(kw), BatchCall(heap, kw))

SetItem ==
    /\ Len(log) <= MaxCalls
    /\ \E self \in Handles, key \in {A, B, AX}, value \in Values :
          Do("__setitem__", self, Tuple(<<Str(key), value>>),
             __setitem__(heap, self, Str(key), value))

DelItem ==
    /\ Len(log) <= MaxCalls
    /\ \E self \in Handles, key \in {A, AX} :
          Do("__delitem__", self, Tuple(<<Str(key)>>), __delitem__(heap, self, Str(key)))

Update ==
    /\ Len(log) <= MaxCalls
    /\ \E self \in Handles, d \in Dicts({B}, Values, 1) :
          Do("update", self, Tuple(<<Dict(d)>>), update(heap, self, <<Dict(d)>>, <<>>))

GetItemKey ==
    /\ Len(log) <= MaxCalls
    /\ \E self \in Handles, key \in {A, B, AX, BX} :
          Do("__getitem__", self, Tuple(<<Str(key)>>), __getitem__(heap, self, Str(key)))

GetItemKeys ==
    /\ Len(log) <= MaxCalls
    /\ \E self \in Handles, ks \in {<<A, AX>>, <<AX, A>>, <<A, B>>} :
          Do("__getitem__", self, Tuple(<<StrTuple(ks)>>),
             __getitem__(heap, self, StrTuple(ks)))

Copy ==
    /\ Len(log) <= MaxCalls
    /\ \E self \in Handles, deep \in BOOLEAN :
          Do("copy", self, Tuple(<<Bool(deep)>>), copy(heap, self, deep))

Remap ==
    /\ Len(log) <= MaxCalls
    /\ \E self \in Handles, mapping \in Dicts({A, B}, {Str(X)}, 1) :
          Do("remap", self, Tuple(<<Dict(mapping)>>), remap(heap, self, mapping))

(* order: the iteration order of the set all_keys in this run *)
FromBatchList ==
    /\ Len(log) <= MaxCalls
    /\ \E b1, b2 \in Handles, order \in {<<A, B, AX, X>>, <<X, AX, B, A>>} :
          Do("from_batch_list", 0, Tuple(<<Ref(b1), Ref(b2)>>),
             from_batch_list(heap, <<Ref(b1), Ref(b2)>>, order))

Init == \E kw \in Kwargs : Begin("Batch", Dict(kw), BatchCall(EmptyHeap, kw))

Next ==
    \/ Construct
    \/ SetItem
    \/ DelItem
    \/ Update
    \/ GetItemKey
    \/ GetItemKeys
    \/ Copy
    \/ Remap
    \/ FromBatchList

Spec == Init /\ [][Next]_vars

(* --- SpecRead: a Batch is constructed from keywords and a key is read    *)

ReadValues ==
    {PyInt(1), List(<<PyInt(1)>>), Dict(<<Entry(X, PyInt(1))>>), Fn("list")}
ReadKeys == {A, AX, DefaultKw, DEFAULT, IN_PLACE}

InitRead ==
    \E kw \in Dicts(ReadKeys, ReadValues, MaxKw) :
        Begin("Batch", Dict(kw), BatchCall(EmptyHeap, kw))

Read ==
    /\ Len(log) = 1
    /\ \E self \in Handles, key \in ReadKeys \cup {B} :
          Do("__getitem__", self, Tuple(<<Str(key)>>), __getitem__(heap, self, Str(key)))

NextRead == Read

SpecRead == InitRead /\ [][NextRead]_vars

(* --- SpecDict: a dictionary is converted to a Batch and back             *)

DictLeaves == {PyInt(1), List(<<>>)}
DictKeys == {A, B, AB, <<"_Batch_x">>}
DictInputs ==
    Dicts(DictKeys,
          DictLeaves \cup {Dict(d) : d \in Dicts(DictKeys, DictLeaves, 1)},
          MaxKw)

InitDict ==
    \E d \in DictInputs : Begin("from_dict", Tuple(<<Dict(d)>>), from_dict(EmptyHeap, Dict(d)))

ToDict ==
    /\ Len(log) = 1
    /\ \E self \in Handles : Do("to_dict", self, Tuple(<<>>), to_dict(heap, self))

NextDict == ToDict

SpecDict == InitDict /\ [][NextDict]_vars

(* --- SpecOps: two Batches are constructed, then an operator or an       *)
(* attribute of one of them is used                                        *)

OpValues ==
    {PyInt(1), List(<<PyInt(1)>>), Namespace(PyInt(1)), Dict(<<Entry(X, PyInt(1))>>)}
OpKwargs == Dicts({A, X}, OpValues, MaxKw)
OpNames == {"__add__", "__eq__", "__neg__", "__iadd__"}

InitOps ==
    \E kwa, kwb \in OpKwargs :
        LET a == BatchCall(EmptyHeap, kwa)
            b == BatchCall(a.h, kwb)
        IN  /\ heap = b.h
            /\ log = <<Call("Batch", 0, Dict(kwa), EmptyHeap, a),
                       Call("Batch", 0, Dict(kwb), a.h, b)>>
            /\ frame = None

(* getattr(a, name)(args) *)
CallMethod(h, a, name, args) ==
    LET m == getattr(h, a, name)
    IN  IF m.err # "ok" THEN m ELSE call(m.h, m.r, args)

(* a.name(b) and a.name() *)
Operator ==
    /\ Len(log) = 2
    /\ \E self \in Handles, name \in OpNames,
          args \in {<<Ref(b)>> : b \in Handles} \cup {<<>>} :
          Do("operator", self, Tuple(<<Str(<<name>>)>> \o args),
             CallMethod(heap, Ref(self), name, args))

(* a.x *)
Attribute ==
    /\ Len(log) = 2
    /\ \E self \in Handles, name \in {"x"} :
          Do("getattr", self, Tuple(<<Str(<<name>>)>>), getattr(heap, Ref(self), name))

NextOps == Operator \/ Attribute

SpecOps == InitOps /\ [][NextOps]_vars

(* --- SpecIndex: a Batch of sequences is constructed and indexed          *)

Count(n) == [i \in 1..n |-> PyInt(i)]
Rows(n) == [i \in 1..n |-> Arr(<<PyInt(i), PyInt(i + 1)>>)]
IndexValues ==
    {PyInt(1)} \cup
    UNION {{List(Count(n)), Arr(Count(n)), Arr(Rows(n)),
            Dict(<<Entry(X, List(Count(n)))>>)} : n \in 1..MaxLen}
Full == Slice(None, None)
IntIndices == {PyInt(i) : i \in 0..MaxLen}
TupleIndices ==
    {Tuple(<<PyInt(0)>>), Tuple(<<PyInt(0), PyInt(1)>>), Tuple(<<Full, PyInt(1)>>),
     Tuple(<<PyInt(0), Full>>), Tuple(<<Slice(PyInt(0), PyInt(1)), PyInt(0)>>),
     Tuple(<<Full>>), Tuple(<<Full, Full>>)}

InitIndex ==
    \E kw \in Dicts({A, B}, IndexValues, MaxKw) :
        Begin("Batch", Dict(kw), BatchCall(EmptyHeap, kw))

IndexInt ==
    /\ Len(log) = 1
    /\ \E self \in Handles, index \in IntIndices :
          Do("__getitem__", self, Tuple(<<index>>), __getitem__(heap, self, index))

IndexTuple ==
    /\ Len(log) = 1
    /\ \E self \in Handles, index \in TupleIndices :
          Do("__getitem__", self, Tuple(<<index>>), __getitem__(heap, self, index))

NextIndex == IndexInt \/ IndexTuple

SpecIndex == InitIndex /\ [][NextIndex]_vars

(* --- SpecFlat: a Batch of nested Batches is constructed and flattened    *)

FlatLeaves == {PyInt(1), List(<<>>)}
FlatInner ==
    Dicts({X, B}, FlatLeaves \cup {Dict(<<>>), Dict(<<Entry(X, PyInt(1))>>)}, 1)
FlatKwargs ==
    Dicts({A, B, AX}, FlatLeaves \cup {Dict(d) : d \in FlatInner}, MaxKw)
Separators == {".", "/"}

InitFlat ==
    \E kw \in FlatKwargs : Begin("Batch", Dict(kw), BatchCall(EmptyHeap, kw))

Flatten ==
    /\ Len(log) = 1
    /\ \E self \in Handles, separator \in Separators :
          Do("flatten", self, Tuple(<<Str(<<separator>>)>>), flatten(heap, self, separator))

NextFlat == Flatten

SpecFlat == InitFlat /\ [][NextFlat]_vars

(* --------- the specification of the claim about query_wildcard --------- *)
(* One Batch is constructed, then it is queried once, or its keys are     *)
(* listed once.                                                           *)

Patterns == {<<"*">>, <<"a">>, <<"a", "*">>, <<"*", "x">>}
Queries ==
    {Str(q) : q \in Patterns}
        \cup {List(<<>>)}
        \cup {List(<<Str(q)>>) : q \in Patterns}
        \cup {List(<<Str(q[1]), Str(q[2])>>) : q \in Patterns \X Patterns}
Depths == {-2, -1, 0, 1, 2}

InitQuery == \E kw \in FlatKwargs : Begin("Batch", Dict(kw), BatchCall(EmptyHeap, kw))

QueryWildcard ==
    /\ Len(log) = 1
    /\ \E self \in Handles, query \in Queries :
          Do("query_wildcard", self, Tuple(<<query>>), query_wildcard(heap, self, query))

Keys ==
    /\ Len(log) = 1
    /\ \E self \in Handles, depth \in Depths :
          Do("keys", self, Tuple(<<PyInt(depth)>>),
             keys_call(heap, self, <<PyInt(depth)>>, <<>>))

NextQuery == QueryWildcard \/ Keys

SpecQuery == InitQuery /\ [][NextQuery]_vars

(* ----------- the specification of the claim about from_tensor ---------- *)
(* A program calls from_tensor once, with a one-dimensional tensor of the *)
(* integers 0, 1, ... and a size map.                                     *)

Tensors == {Arr([i \in 1..n |-> PyInt(i - 1)]) : n \in 0..5}
Sizes == {PyInt(1), PyInt(2)}
InnerMaps == Dicts({X, B}, Sizes, 2)
SizeMaps ==
    Dicts({A, B, X},
          Sizes \cup {OrderedDict(d) : d \in InnerMaps}
                \cup {Dict(<<Entry(X, PyInt(1))>>)}, 2)
SplitFns == {Fn("split"), Fn("split_list")}
Dims == {0, 1}

InitTensor == Begin("Batch", Dict(<<>>), BatchCall(EmptyHeap, <<>>))

FromTensor ==
    /\ Len(log) = 1
    /\ \E data \in Tensors, cat_map \in SizeMaps, dim \in Dims, split_fn \in SplitFns :
          Do("from_tensor", 0,
             Tuple(<<data, OrderedDict(cat_map), PyInt(dim), split_fn>>),
             from_tensor(heap, data, OrderedDict(cat_map), dim, split_fn))

NextTensor == FromTensor

SpecTensor == InitTensor /\ [][NextTensor]_vars

(* ------------- the specification of the claim about to_list ------------ *)
(* One Batch is constructed, then to_list is called on it once.  The loop *)
(* of to_list runs one statement per step.  No member of the Batch holds  *)
(* more than MaxLen elements, so self[idx] is the same for every idx from *)
(* MaxSteps on: idx is counted up to MaxSteps, and the elements and the   *)
(* Batches made from there on are not recorded.                           *)

MaxSteps == MaxLen + 2

ListLeaves == {List([i \in 1..n |-> PyInt(i)]) : n \in 0..MaxLen} \cup {PyInt(1)}
ListKwargs ==
    Dicts({A, B},
          ListLeaves \cup {Dict(<<>>), Dict(<<Entry(X, List(<<PyInt(1)>>))>>)}, 2)

InitList == \E kw \in ListKwargs : Begin("Batch", Dict(kw), BatchCall(EmptyHeap, kw))

(* lines 254-255: idx = 0, elements = []; pre is the heap at the call and *)
(* next_element is the outcome of self[idx], once line 258 has run        *)
ToList ==
    /\ Len(log) = 1
    /\ frame = None
    /\ \E self \in Handles :
          frame' = [self |-> self, idx |-> 0, elements |-> <<>>, pre |-> heap,
                    line |-> 258, next_element |-> Ok(heap, None)]
    /\ UNCHANGED <<heap, log>>

(* line 258: next_element = self[idx] *)
Index ==
    /\ frame # None
    /\ frame.line = 258
    /\ frame' = [frame EXCEPT !.line = 259,
                              !.next_element = __getitem__(heap, frame.self, PyInt(frame.idx))]
    /\ heap' = IF frame.idx < MaxSteps THEN frame'.next_element.h ELSE heap
    /\ UNCHANGED log

(* lines 259-262: the element is not empty, it is appended *)
Iterate ==
    /\ frame # None
    /\ frame.line = 259
    /\ frame.next_element.err = "ok"
    /\ len(frame.next_element.h, frame.next_element.r) # 0
    /\ frame' = [frame EXCEPT !.line = 258,
                              !.idx = Min(@ + 1, MaxSteps),
                              !.elements = IF frame.idx < MaxSteps
                                           THEN Append(@, frame.next_element.r)
                                           ELSE @]
    /\ UNCHANGED <<heap, log>>

(* lines 259-260 and 263-265: the element is empty or self[idx] raised;   *)
(* an IndexError is passed over, any other exception leaves to_list       *)
Return ==
    /\ frame # None
    /\ frame.line = 259
    /\ IF frame.next_element.err = "ok"
       THEN len(frame.next_element.h, frame.next_element.r) = 0
       ELSE TRUE
    /\ log' = Append(log,
                 Call("to_list", frame.self, Tuple(<<>>), frame.pre,
                      IF frame.next_element.err \in {"ok", "IndexError"}
                      THEN Ok(heap, List(frame.elements))
                      ELSE frame.next_element))
    /\ frame' = None
    /\ UNCHANGED heap

NextList == ToList \/ Index \/ Iterate \/ Return

SpecList == InitList /\ [][NextList]_vars

(* a running call executes its next statement *)
SpecListLive == SpecList /\ WF_vars(Index) /\ WF_vars(Iterate) /\ WF_vars(Return)

(* ----------------------------- properties ----------------------------- *)

(* a == b of two values: two dicts, and the contents of two Batches, are   *)
(* equal when they have the same keys with equal values, in any order     *)
RECURSIVE eq(_, _)
eq(a, b) ==
    IF a.t # b.t THEN FALSE
    ELSE IF a.t \in {"dict", "batch"}
    THEN /\ Len(a.m) = Len(b.m)
         /\ \A i \in 1..Len(a.m) :
               /\ dict_contains(b.m, a.m[i].k)
               /\ eq(a.m[i].v, dict_getitem(b.m, a.m[i].k))
    ELSE IF a.t \in {"list", "tuple"}
    THEN /\ Len(a.e) = Len(b.e)
         /\ \A i \in 1..Len(a.e) : eq(a.e[i], b.e[i])
    ELSE a = b

(* the reads of a key k that follow the construction Batch(k=v, ...) *)
KwReads ==
    {j \in 2..Len(log) :
        /\ log[1].op = "Batch" /\ log[1].err = "ok"
        /\ log[j].op = "__getitem__" /\ log[j].self = log[1].r.id
        /\ log[j].pre = log[1].post
        /\ log[j].args.e[1].t = "str"
        /\ dict_contains(log[1].args.m, log[j].args.e[1].k)}

KwValue(j) == dict_getitem(log[1].args.m, log[j].args.e[1].k)

RoundTrips ==
    {j \in 2..Len(log) :
        /\ log[1].op = "from_dict" /\ log[1].err = "ok"
        /\ log[j].op = "to_dict" /\ log[j].self = log[1].r.id
        /\ log[j].pre = log[1].post}

(* every key of d, at every depth, has no dot and no _Batch prefix *)
RECURSIVE PlainKeys(_)
PlainKeys(d) ==
    \A i \in 1..Len(d) :
        /\ Len(d[i].k) = 1
        /\ ~startswith(d[i].k)
        /\ (d[i].v.t = "dict" => PlainKeys(d[i].v.m))

RECURSIVE Snap(_, _)
Snap(h, v) ==
    IF v.t = "ref"
    THEN [t |-> "batch",
          m |-> [i \in 1..Len(items(h, v)) |->
                    Entry(items(h, v)[i].k, Snap(h, items(h, v)[i].v))]]
    ELSE IF v.t \in {"list", "tuple"}
    THEN [v EXCEPT !.e = [i \in 1..Len(v.e) |-> Snap(h, v.e[i])]]
    ELSE v

KeySet(h, id) == {keys(h, id)[i] : i \in 1..Len(keys(h, id))}

(* call j returned a Batch that did not exist before the call *)
NewBatch(j) == log[j].r.t = "ref" /\ log[j].r.id > Len(log[j].pre.objs)

(* call j changed no entry of any Batch that existed before the call *)
Unchanged(j) ==
    \A id \in 1..Len(log[j].pre.objs) :
        DictOf(log[j].post, id) = DictOf(log[j].pre, id)

(* the member of the receiver of call j at key k, before the call *)
MemberOf(j, k) == dict_getitem(DictOf(log[j].pre, log[j].self), k)

OpCalls == {j \in 1..Len(log) : log[j].op = "operator"}
OpName(j) == log[j].args.e[1].k[1]
OpArgs(j) == Tail(log[j].args.e)

(* the Batch arguments of call j have the keys of its receiver *)
SameKeys(j) ==
    \A i \in 1..Len(OpArgs(j)) :
        OpArgs(j)[i].t = "ref" =>
            KeySet(log[j].pre, OpArgs(j)[i].id) = KeySet(log[j].pre, log[j].self)

(* a[k].op(b[k]) in the state before call j *)
MemberCall(j, k) ==
    CallMethod(log[j].pre, MemberOf(j, k), OpName(j),
               [i \in 1..Len(OpArgs(j)) |->
                   IF OpArgs(j)[i].t = "ref"
                   THEN dict_getitem(DictOf(log[j].pre, OpArgs(j)[i].id), k)
                   ELSE OpArgs(j)[i]])

Supported(j) ==
    \A k \in KeySet(log[j].pre, log[j].self) : MemberCall(j, k).err = "ok"

Broadcast(j) ==
    /\ log[j].err = "ok"
    /\ NewBatch(j)
    /\ KeySet(log[j].post, log[j].r.id) = KeySet(log[j].pre, log[j].self)
    /\ \A k \in KeySet(log[j].pre, log[j].self) :
          Snap(log[j].post, dict_getitem(DictOf(log[j].post, log[j].r.id), k))
              = Snap(MemberCall(j, k).h, MemberCall(j, k).r)
    /\ Unchanged(j)

AttrReads == {j \in 1..Len(log) : log[j].op = "getattr"}

(* a[k].n in the state before call j *)
MemberAttr(j, k) == getattr(log[j].pre, MemberOf(j, k), OpName(j))

Present(j) ==
    \A k \in KeySet(log[j].pre, log[j].self) : MemberAttr(j, k).err = "ok"

AttrBroadcast(j) ==
    /\ log[j].err = "ok"
    /\ NewBatch(j)
    /\ KeySet(log[j].post, log[j].r.id) = KeySet(log[j].pre, log[j].self)
    /\ \A k \in KeySet(log[j].pre, log[j].self) :
          Snap(log[j].post, dict_getitem(DictOf(log[j].post, log[j].r.id), k))
              = Snap(MemberAttr(j, k).h, MemberAttr(j, k).r)
    /\ Unchanged(j)

(* C3 as the specification states it: for Batches a and b with the same   *)
(* keys and every operator op of the operator set (in-place operators     *)
(* included) that the members support, a.op(b) is a new Batch with a's    *)
(* keys and result[k] = a[k].op(b[k]), and for every attribute n present  *)
(* on every member a.n is a new Batch with a.n[k] = a[k].n; a and b are   *)
(* unchanged.                                                              *)
C3_AnyOperator ==
    /\ \A j \in OpCalls : (SameKeys(j) /\ Supported(j)) => Broadcast(j)
    /\ \A j \in AttrReads : Present(j) => AttrBroadcast(j)

(* C3: for a non-empty Batch a, a Batch b with the same keys and every    *)
(* operator op of the operator set that is not an in-place operator and   *)
(* that the members support, a.op(b) (a.op() for a unary operator) is a   *)
(* new Batch with a's keys and result[k] = a[k].op(b[k]); for every       *)
(* attribute n present on every member that is not a key of a, a.n is a   *)
(* new Batch with a.n[k] = a[k].n; a and b are unchanged.                 *)
C3_Broadcast ==
    /\ \A j \in OpCalls :
          (/\ SameKeys(j) /\ Supported(j)
           /\ KeySet(log[j].pre, log[j].self) # {}
           /\ OpName(j) \notin IN_PLACE_OPERATORS) => Broadcast(j)
    /\ \A j \in AttrReads :
          (/\ Present(j)
           /\ KeySet(log[j].pre, log[j].self) # {}
           /\ <<OpName(j)>> \notin KeySet(log[j].pre, log[j].self)) => AttrBroadcast(j)

(* a + b of two Batches of two members, one of them a nested Batch *)
C3_Witness ==
    \E j \in OpCalls :
        /\ OpName(j) = "__add__"
        /\ Len(OpArgs(j)) = 1 /\ OpArgs(j)[1].t = "ref" /\ OpArgs(j)[1].id # log[j].self
        /\ SameKeys(j) /\ Supported(j)
        /\ Cardinality(KeySet(log[j].pre, log[j].self)) = 2
        /\ \E k \in KeySet(log[j].pre, log[j].self) : MemberOf(j, k).t = "ref"
        /\ Broadcast(j)

(* the calls b[i] and b[i1, ..., in] with integers and slices *)
IndexCalls ==
    {j \in 1..Len(log) :
        /\ log[j].op = "__getitem__"
        /\ \/ log[j].args.e[1].t = "int"
           \/ /\ log[j].args.e[1].t = "tuple"
              /\ log[j].args.e[1].e # <<>>
              /\ \A i \in 1..Len(log[j].args.e[1].e) :
                    IsInt(log[j].args.e[1].e[i]) \/ log[j].args.e[1].e[i].t = "slice"}

(* every leaf under v is a sequence of outer length n *)
RECURSIVE LeavesOfLen(_, _, _)
LeavesOfLen(h, v, n) ==
    IF v.t = "ref"
    THEN \A i \in 1..Len(items(h, v)) : LeavesOfLen(h, items(h, v)[i].v, n)
    ELSE v.t \in {"list", "tuple", "arr"} /\ Len(v.e) = n

(* member[index] in the state before call j *)
MemberAt(j, k) == getitem(log[j].pre, MemberOf(j, k), log[j].args.e[1])

(* the precondition of call j: for b[i], sequences of one length n > i;  *)
(* for a tuple, members that the tuple indexes                            *)
Indexable(j) ==
    IF log[j].args.e[1].t = "int"
    THEN \E n \in 1..MaxLen :
            /\ LeavesOfLen(log[j].pre, Ref(log[j].self), n)
            /\ 0 <= log[j].args.e[1].n /\ log[j].args.e[1].n < n
    ELSE \A k \in KeySet(log[j].pre, log[j].self) : MemberAt(j, k).err = "ok"

Indexed(j) ==
    /\ log[j].err = "ok"
    /\ NewBatch(j)
    /\ KeySet(log[j].post, log[j].r.id) = KeySet(log[j].pre, log[j].self)
    /\ \A k \in KeySet(log[j].pre, log[j].self) :
          /\ MemberAt(j, k).err = "ok"
          /\ Snap(log[j].post, dict_getitem(DictOf(log[j].post, log[j].r.id), k))
                = Snap(MemberAt(j, k).h, MemberAt(j, k).r)
    /\ Unchanged(j)

(* C4 as the specification states it: b[i] of a Batch of sequences of    *)
(* length n > i >= 0 is a new Batch of the members member[i], and so is   *)
(* b[t] for every tuple t of integers and slices; b is unchanged.          *)
C4_AnyTuple ==
    \A j \in IndexCalls : Indexable(j) => Indexed(j)

(* C4: b[i] of a Batch of sequences of length n > i >= 0 is a new Batch   *)
(* with b's keys of the members member[i], and so is b[t] for every tuple *)
(* t of integers and slices that holds at least one integer; b is         *)
(* unchanged.                                                              *)
C4_Indexed ==
    \A j \in IndexCalls :
        (/\ Indexable(j)
         /\ (log[j].args.e[1].t = "tuple" =>
                \E i \in 1..Len(log[j].args.e[1].e) : IsInt(log[j].args.e[1].e[i])))
            => Indexed(j)

(* b[:, 1] of a Batch of two arrays of two rows *)
C4_Witness ==
    \E j \in IndexCalls :
        /\ log[j].args.e[1] = Tuple(<<Full, PyInt(1)>>)
        /\ Cardinality(KeySet(log[j].pre, log[j].self)) = 2
        /\ Indexable(j)
        /\ Indexed(j)
        /\ \A k \in KeySet(log[j].pre, log[j].self) : Len(MemberOf(j, k).e) = 2

(* the calls b[k1, ..., kn] with string keys *)
KeysCalls ==
    {j \in 1..Len(log) :
        /\ log[j].op = "__getitem__"
        /\ log[j].args.e[1].t \in {"tuple", "list"}
        /\ log[j].args.e[1].e # <<>>
        /\ \A i \in 1..Len(log[j].args.e[1].e) : log[j].args.e[1].e[i].t = "str"}

KeysOf(j) == {log[j].args.e[1].e[i].k : i \in 1..Len(log[j].args.e[1].e)}

(* b[k] by the string-key rule in the state before call j *)
Resolved(j, k) == _getitem_key(log[j].pre, log[j].self, k)

(* C5: b[k1, ..., kn] with string keys that each resolve in b (without    *)
(* the default factory) is a new Batch whose key set is {k1, ..., kn} and *)
(* whose value at ki is b[ki]; b and its nested Batches are unchanged.    *)
C5_KeysSelect ==
    \A j \in KeysCalls :
        (\A k \in KeysOf(j) : Resolved(j, k).err = "ok" /\ Resolved(j, k).h = log[j].pre)
            => /\ log[j].err = "ok"
               /\ NewBatch(j)
               /\ KeySet(log[j].post, log[j].r.id) = KeysOf(j)
               /\ \A k \in KeysOf(j) :
                     Snap(log[j].post, dict_getitem(DictOf(log[j].post, log[j].r.id), k))
                         = Snap(log[j].pre, Resolved(j, k).r)
               /\ Unchanged(j)

MergeCalls == {j \in 1..Len(log) : log[j].op = "from_batch_list"}

(* the keys of the inputs of call j *)
MergedKeys(j) ==
    UNION {KeySet(log[j].pre, log[j].args.e[i].id) : i \in 1..Len(log[j].args.e)}

(* the values at key k of the inputs of call j that have k, in input order *)
ValuesAt(j, k) ==
    LET has == SelectSeq(log[j].args.e, LAMBDA b : k \in KeySet(log[j].pre, b.id))
    IN  [i \in 1..Len(has) |-> dict_getitem(DictOf(log[j].pre, has[i].id), k)]

(* C6: from_batch_list(b1, ..., bn) returns a new Batch whose keys are    *)
(* the keys of the inputs and in which every key whose values are not all *)
(* Batches holds the list, in input order, of its values in the inputs    *)
(* that have the key.                                                      *)
C6_MergedLists ==
    \A j \in MergeCalls :
        /\ log[j].err = "ok"
        /\ NewBatch(j)
        /\ KeySet(log[j].post, log[j].r.id) = MergedKeys(j)
        /\ \A k \in MergedKeys(j) :
              (\E i \in 1..Len(ValuesAt(j, k)) : ValuesAt(j, k)[i].t # "ref")
                  => Snap(log[j].post, dict_getitem(DictOf(log[j].post, log[j].r.id), k))
                         = Snap(log[j].pre, List(ValuesAt(j, k)))

CopyCalls == {j \in 1..Len(log) : log[j].op = "copy" /\ log[j].err = "ok"}

(* call m assigns or deletes a key of Batch c and the top-level entries   *)
(* of Batch b are the same before and after it                             *)
KeepsEntries(m, c, b) ==
    (log[m].op \in {"__setitem__", "__delitem__"} /\ log[m].self = c)
        => items(log[m].post, Ref(b)) = items(log[m].pre, Ref(b))

(* C7: c = b.copy(deep) is a new Batch with the keys and values of b that *)
(* has a mapping of its own, and a later assignment or deletion of a key  *)
(* of c leaves the top-level entries of b unchanged, and the other way    *)
(* round.                                                                  *)
C7_CopyIndependent ==
    \A j \in CopyCalls :
        /\ NewBatch(j)
        /\ Snap(log[j].post, log[j].r) = Snap(log[j].pre, Ref(log[j].self))
        /\ log[j].post.objs[log[j].r.id] # log[j].post.objs[log[j].self]
        /\ \A m \in (j + 1)..Len(log) :
              /\ KeepsEntries(m, log[j].r.id, log[j].self)
              /\ KeepsEntries(m, log[j].self, log[j].r.id)

(* C8: in every state no Batch holds a plain dict as the value of a       *)
(* public key.                                                             *)
C8_NoRawDict ==
    \A id \in 1..Len(heap.objs) :
        \A i \in 1..Len(items(heap, Ref(id))) : items(heap, Ref(id))[i].v.t # "dict"

(* the reads b[k] of a key k that is not stored and whose first segment   *)
(* is not stored either                                                    *)
UnresolvedReads ==
    {j \in 1..Len(log) :
        /\ log[j].op = "__getitem__"
        /\ log[j].args.e[1].t = "str"
        /\ ~dict_contains(DictOf(log[j].pre, log[j].self), log[j].args.e[1].k)
        /\ ~dict_contains(DictOf(log[j].pre, log[j].self), <<Head(log[j].args.e[1].k)>>)}

DefaultOf(j) == dict_getitem(DictOf(log[j].pre, log[j].self), DEFAULT)

(* C9: a read of an unresolved key k of a Batch with a default factory    *)
(* returns the result of the factory and stores it at k, and no other     *)
(* entry of any Batch changes; without a default factory it raises        *)
(* KeyError and changes nothing.                                           *)
C9_DefaultRead ==
    \A j \in UnresolvedReads :
        IF DefaultOf(j) # None
        THEN /\ log[j].err = "ok"
             /\ Snap(log[j].post, log[j].r)
                    = Snap(call_default(log[j].pre, DefaultOf(j)).h,
                           call_default(log[j].pre, DefaultOf(j)).r)
             /\ dict_contains(DictOf(log[j].post, log[j].self), log[j].args.e[1].k)
             /\ dict_getitem(DictOf(log[j].post, log[j].self), log[j].args.e[1].k) = log[j].r
             /\ dict_delitem(DictOf(log[j].post, log[j].self), log[j].args.e[1].k)
                    = DictOf(log[j].pre, log[j].self)
             /\ \A id \in 1..Len(log[j].pre.objs) :
                    id # log[j].self => DictOf(log[j].post, id) = DictOf(log[j].pre, id)
        ELSE log[j].err = "KeyError" /\ log[j].post = log[j].pre

RemapCalls == {j \in 1..Len(log) : log[j].op = "remap"}

(* C10: remap(mapping) returns a new Batch in which, for every pair       *)
(* (old_key, new_key), new_key holds the value of the receiver at old_key *)
(* when the receiver has the key old_key and None otherwise; it raises    *)
(* nothing and the receiver is unchanged.                                  *)
C10_Remap ==
    \A j \in RemapCalls :
        /\ log[j].err = "ok"
        /\ NewBatch(j)
        /\ \A i \in 1..Len(log[j].args.e[1].m) :
              LET old == log[j].args.e[1].m[i].k
                  new == log[j].args.e[1].m[i].v.k
              IN  /\ dict_contains(DictOf(log[j].post, log[j].r.id), new)
                  /\ Snap(log[j].post, dict_getitem(DictOf(log[j].post, log[j].r.id), new))
                        = IF old \in KeySet(log[j].pre, log[j].self)
                          THEN Snap(log[j].pre, MemberOf(j, old))
                          ELSE None
        /\ Unchanged(j)

FlattenCalls == {j \in 1..Len(log) : log[j].op = "flatten"}
SeparatorOf(j) == log[j].args.e[1].k[1]

(* the names of the model that hold no separator *)
Atoms == {"a", "b", "x"}

(* the string key holds the separator *)
HoldsSeparator(key, separator) ==
    IF separator = "." THEN Len(key) > 1
    ELSE \E i \in 1..Len(key) : key[i] \notin Atoms

(* no key of the content c, at any depth, holds the separator *)
RECURSIVE NoSeparator(_, _)
NoSeparator(c, separator) ==
    \A i \in 1..Len(c.m) :
        /\ ~HoldsSeparator(c.m[i].k, separator)
        /\ (c.m[i].v.t = "batch" => NoSeparator(c.m[i].v, separator))

(* no Batch nested in the content c, at any depth, is empty *)
RECURSIVE NoEmptyBatch(_)
NoEmptyBatch(c) ==
    \A i \in 1..Len(c.m) :
        c.m[i].v.t = "batch" => (c.m[i].v.m # <<>> /\ NoEmptyBatch(c.m[i].v))

(* the leaves of the content c, each with its separator-joined path *)
RECURSIVE Leaves(_, _)
Leaves(c, separator) ==
    UNION {IF c.m[i].v.t = "batch"
           THEN {Entry(plus(c.m[i].k, separator, l.k), l.v) :
                     l \in Leaves(c.m[i].v, separator)}
           ELSE {c.m[i]} : i \in 1..Len(c.m)}

(* the names joined by the separator *)
RECURSIVE JoinName(_, _)
JoinName(p, separator) ==
    IF Len(p) = 1 THEN p[1] ELSE p[1] \o separator \o JoinName(Tail(p), separator)

(* name.split(separator) *)
Parts(name, separator) ==
    CHOOSE p \in UNION {[1..n -> Atoms] : n \in 1..4} : JoinName(p, separator) = name

(* key.split(separator): the keys of the path that the string key joins *)
RECURSIVE SplitKey(_, _, _)
SplitKey(key, separator, acc) ==
    IF key = <<>> THEN acc
    ELSE IF separator = "." THEN SplitKey(Tail(key), separator, Append(acc, <<Head(key)>>))
    ELSE LET p == Parts(Head(key), separator)
             rest == [i \in 1..(Len(p) - 1) |-> <<p[i + 1]>>]
         IN  SplitKey(Tail(key), separator,
                 IF acc = <<>> THEN <<<<p[1]>>>> \o rest
                 ELSE SubSeq(acc, 1, Len(acc) - 1)
                      \o <<Append(acc[Len(acc)], p[1])>> \o rest)

(* the elements of a set in some order *)
SeqOf(S) ==
    CHOOSE f \in [1..Cardinality(S) -> S] : \A i, j \in 1..Cardinality(S) : i # j => f[i] # f[j]

(* the nested content rebuilt from the pairs [path, v] of E *)
RECURSIVE Nest(_)
Nest(E) ==
    LET heads == SeqOf({e.path[1] : e \in E})
    IN  [t |-> "batch",
         m |-> [i \in 1..Len(heads) |->
                  Entry(heads[i],
                        IF \E e \in E : e.path = <<heads[i]>>
                        THEN (CHOOSE e \in E : e.path = <<heads[i]>>).v
                        ELSE Nest({[path |-> Tail(e.path), v |-> e.v] :
                                      e \in {x \in E : x.path[1] = heads[i]}}))]]

(* the nested content rebuilt from the flat content c by splitting its keys *)
Rebuilt(c, separator) ==
    Nest({[path |-> SplitKey(c.m[i].k, separator, <<>>), v |-> c.m[i].v] : i \in 1..Len(c.m)})

Flattened(j) ==
    /\ log[j].err = "ok"
    /\ NewBatch(j)
    /\ \A i \in 1..Len(Snap(log[j].post, log[j].r).m) :
          Snap(log[j].post, log[j].r).m[i].v.t # "batch"
    /\ {Snap(log[j].post, log[j].r).m[i] : i \in 1..Len(Snap(log[j].post, log[j].r).m)}
          = Leaves(Snap(log[j].pre, Ref(log[j].self)), SeparatorOf(j))
    /\ eq(Rebuilt(Snap(log[j].post, log[j].r), SeparatorOf(j)),
          Snap(log[j].pre, Ref(log[j].self)))

(* C11 as the specification states it: for every Batch whose keys hold no *)
(* separator, flatten(separator) is a single-level Batch of the leaves    *)
(* under their joined paths, and splitting its keys rebuilds the Batch.   *)
C11_AnyBatch ==
    \A j \in FlattenCalls :
        NoSeparator(Snap(log[j].pre, Ref(log[j].self)), SeparatorOf(j)) => Flattened(j)

(* C11: for every Batch whose keys hold no separator and that nests no    *)
(* empty Batch at any depth, flatten(separator) is a single-level Batch   *)
(* of the leaves under their joined paths, and splitting its keys         *)
(* rebuilds a Batch equal to the original.                                 *)
C11_Flatten ==
    \A j \in FlattenCalls :
        (/\ NoSeparator(Snap(log[j].pre, Ref(log[j].self)), SeparatorOf(j))
         /\ NoEmptyBatch(Snap(log[j].pre, Ref(log[j].self)))) => Flattened(j)

(* a Batch of a leaf and a Batch that nests a Batch is flattened with "/" *)
C11_Witness ==
    \E j \in FlattenCalls :
        /\ SeparatorOf(j) = "/"
        /\ NoSeparator(Snap(log[j].pre, Ref(log[j].self)), SeparatorOf(j))
        /\ NoEmptyBatch(Snap(log[j].pre, Ref(log[j].self)))
        /\ Len(Snap(log[j].pre, Ref(log[j].self)).m) = 2
        /\ \E i \in 1..2 :
              /\ Snap(log[j].pre, Ref(log[j].self)).m[i].v.t = "batch"
              /\ Snap(log[j].pre, Ref(log[j].self)).m[i].v.m[1].v.t = "batch"
        /\ Flattened(j)

(* --------------------------- query_wildcard ---------------------------- *)

QueryCalls == {j \in 1..Len(log) : log[j].op = "query_wildcard"}

(* the patterns of the query of call j *)
PatternsOf(j) ==
    IF log[j].args.e[1].t = "str" THEN {log[j].args.e[1].k}
    ELSE {log[j].args.e[1].e[i].k : i \in 1..Len(log[j].args.e[1].e)}

(* a pattern of call j matches the dot-joined key *)
Matched(j, key) == \E q \in PatternsOf(j) : fnmatch(key, q)

(* C12: query_wildcard(query), for one pattern or a list of patterns,     *)
(* returns a new Batch restricted to the keys that matched a pattern: it  *)
(* holds every leaf whose dot-joined path matched, and every leaf it      *)
(* holds is a leaf of the Batch under a key, at some depth, that matched. *)
C12_QueryWildcard ==
    \A j \in QueryCalls :
        /\ log[j].err = "ok"
        /\ NewBatch(j)
        /\ \A l \in Leaves(Snap(log[j].pre, Ref(log[j].self)), ".") :
              Matched(j, l.k) => l \in Leaves(Snap(log[j].post, log[j].r), ".")
        /\ \A l \in Leaves(Snap(log[j].post, log[j].r), ".") :
              /\ l \in Leaves(Snap(log[j].pre, Ref(log[j].self)), ".")
              /\ \E n \in 1..Len(l.k) : Matched(j, SubSeq(l.k, 1, n))

(* ----------------------------- from_tensor ----------------------------- *)

TensorCalls == {j \in 1..Len(log) : log[j].op = "from_tensor"}

IsSizeMap(v) == v.t \in {"dict", "odict"}

(* the sum of the sizes of the leaf keys of the size map *)
RECURSIVE TotalSize(_)
TotalSize(its) ==
    IF its = <<>> THEN 0
    ELSE (IF IsSizeMap(Head(its).v) THEN TotalSize(Head(its).v.m) ELSE Head(its).v.n)
         + TotalSize(Tail(its))

(* the content in which the leaf keys of the size map, in iteration order *)
(* and including those of nested size maps, hold consecutive slices of    *)
(* the elements e that start at the 0-based position start                *)
RECURSIVE Cut(_, _, _)
Cut(its, e, start) ==
    IF its = <<>> THEN <<>>
    ELSE <<Entry(Head(its).k,
                 IF IsSizeMap(Head(its).v)
                 THEN [t |-> "batch", m |-> Cut(Head(its).v.m, e, start)]
                 ELSE Arr(SubSeq(e, start + 1, start + Head(its).v.n)))>>
         \o Cut(Tail(its), e,
                start + TotalSize(<<Head(its)>>))

(* every size map nested in the entries is an OrderedDict *)
RECURSIVE Ordered(_)
Ordered(its) ==
    \A i \in 1..Len(its) :
        IsSizeMap(its[i].v) => (its[i].v.t = "odict" /\ Ordered(its[i].v.m))

(* C13: given a split_fn that returns (first_n, remainder), from_tensor   *)
(* gives the leaf keys of the size map, in iteration order and including  *)
(* the keys of nested size maps, consecutive non-overlapping slices of    *)
(* data: each leaf of size s holds the s elements that start where the    *)
(* slice of the previous leaf ended.                                      *)
C13_ConsecutiveSlices ==
    \A j \in TensorCalls :
        (/\ log[j].args.e[4] = Fn("split")
         /\ log[j].args.e[3] = PyInt(0)
         /\ Ordered(log[j].args.e[2].m)
         /\ TotalSize(log[j].args.e[2].m) <= Len(log[j].args.e[1].e))
        => /\ log[j].err = "ok"
           /\ NewBatch(j)
           /\ eq(Snap(log[j].post, log[j].r),
                 [t |-> "batch", m |-> Cut(log[j].args.e[2].m, log[j].args.e[1].e, 0)])

(* ------------------------------- to_list ------------------------------- *)

(* C14: to_list() terminates for every Batch, an empty Batch and a Batch  *)
(* that holds nested, possibly empty, Batches included: a running call of *)
(* to_list eventually returns.                                            *)
C14_Terminates == (frame # None) ~> (frame = None)

====
